---- MODULE Spec2Model ----
(***************************************************************************)
(* Model of nmos_active_monitor.py: the NMOS IS-05 polling loop that       *)
(* writes MXL flow descriptor files and starts / stops mxl-gst helper      *)
(* processes on activation transitions of senders and receivers.           *)
(*                                                                         *)
(* Python values are encoded as follows.                                   *)
(*   - a resource key f"{rtype}/{rid}" is the pair <<rtype, rid>>;         *)
(*   - an insertion-ordered dict whose order is observable (active_state,  *)
(*     sender_patterns) is a sequence of <<key, value>> pairs;             *)
(*   - the other dicts are functions whose DOMAIN is the key set;          *)
(*   - None / True / False stored in active_state are the strings "None",  *)
(*     "True", "False";                                                    *)
(*   - procs[key] lists every process ever started for key, each with the  *)
(*     number of terminate() calls it got and, for a running generator,    *)
(*     the flow id of its descriptor; a process handle is an index into    *)
(*     that list;                                                          *)
(*   - the MXL domain directory is the set of flow ids f whose f.json      *)
(*     exists.                                                             *)
(***************************************************************************)
EXTENDS Integers, Sequences, FiniteSets

VARIABLES
    pc,                    \* "top" | "poll" | "stopped" | "crashed"
    active_state,          \* monitor(): ordered dict key -> None/True/False
    polls_since_discovery, \* monitor(): tick counter
    pending,               \* rest of list(active_state.keys()) of this tick
    source_processes,      \* global dict key -> process
    sink_processes,        \* global dict key -> process
    sender_flow_ids,       \* global dict key -> flow id
    sender_patterns,       \* global ordered dict sender id -> pattern
    procs,                 \* every process started so far
    files,                 \* flow ids whose descriptor file is on disk
    printed,               \* the lines printed by the last step
    discovery              \* a call of discover_resources by itself: what
                           \* the API answers and what the call returned

vars == <<pc, active_state, polls_since_discovery, pending,
          source_processes, sink_processes, sender_flow_ids, sender_patterns,
          procs, files, printed, discovery>>

----------------------------------------------------------------------------
(* Bounds of the model *)

\* The --rediscover value of the run (the program's default is 30).
rediscover_every == 2

\* Largest number of helper processes started in one run.
MaxSpawn == 2

----------------------------------------------------------------------------
(* Program constants and the finite world the API answers from *)

RESOURCE_TYPES == <<"senders", "receivers">>

MXL_TRANSPORT == "urn:x-nmos:transport:mxl"

TEST_PATTERNS == <<"colors", "red">>

SenderIds == {"a", "b"}
ReceiverIds == {"x"}
IdsOf(rtype) == IF rtype = "senders" THEN SenderIds ELSE ReceiverIds
FlowIds == {"f1", "f2"}

Key(rtype, rid) == <<rtype, rid>>
AllKeys == {Key("senders", rid) : rid \in SenderIds}
             \cup {Key("receivers", rid) : rid \in ReceiverIds}
NoKey == <<"-", "-">>

\* key.startswith("senders/"), key.startswith("receivers/")
IsSender(key) == key[1] = "senders"
IsReceiver(key) == key[1] = "receivers"

----------------------------------------------------------------------------
(* Ordered dicts as sequences of <<key, value>> pairs *)

DictKeys(d) == [i \in DOMAIN d |-> d[i][1]]
KeySet(d) == {d[i][1] : i \in DOMAIN d}
Has(d, k) == k \in KeySet(d)
Index(d, k) == CHOOSE i \in DOMAIN d : d[i][1] = k
\* d[k]
Lookup(d, k) == d[Index(d, k)][2]
\* d.get(k)
Get(d, k) == IF Has(d, k) THEN Lookup(d, k) ELSE "None"
\* d[k] = v : an existing key keeps its position, a new one goes last
Put(d, k, v) ==
    IF Has(d, k) THEN [d EXCEPT ![Index(d, k)] = <<k, v>>]
    ELSE Append(d, <<k, v>>)

\* del d[k] and d[k] = v on the dicts modelled as functions
Del(f, k) == [x \in DOMAIN f \ {k} |-> f[x]]
Set(f, k, v) == [x \in DOMAIN f \cup {k} |-> IF x = k THEN v ELSE f[x]]
Empty == [x \in {} |-> 0]

RECURSIVE Concat(_)
Concat(ss) == IF ss = <<>> THEN <<>> ELSE Head(ss) \o Concat(Tail(ss))

----------------------------------------------------------------------------
(* What a fetch can return *)

\* fetch_json of a list endpoint: None, or a list of entries; an entry is
\* <<rid, n>>, the text of rid followed by n "/" characters.
Entries(rtype) == {<<rid, n>> : rid \in IdsOf(rtype), n \in {0, 1}}
EntryLists(rtype) ==
    {l \in UNION {[1..n -> Entries(rtype)] : n \in 0..Cardinality(IdsOf(rtype))} :
        \A i, j \in DOMAIN l : l[i][1] = l[j][1] => i = j}
ListResults(rtype) ==
    {[ok |-> FALSE, entries |-> <<>>]}
      \cup {[ok |-> TRUE, entries |-> l] : l \in EntryLists(rtype)}
Listings == [{"senders", "receivers"} -> ListResults("senders") \cup ListResults("receivers")]
ValidListings == {l \in Listings : \A rtype \in DOMAIN l : l[rtype] \in ListResults(rtype)}

\* fetch_json of .../transporttype for every key: a URN, or None
TransportTypes == [AllKeys -> {MXL_TRANSPORT, "urn:x-nmos:transport:rtp", "None"}]

\* fetch_json of .../active: None (ok = FALSE) or a document.  A document
\* may lack master_enable ("absent") and may lack transport_params
\* (has_tp = FALSE); transport_params lists the flow_id of each element,
\* "None" for an element without flow_id.
NoData == [ok |-> FALSE, master_enable |-> "absent", has_tp |-> FALSE, transport_params |-> <<>>]
Documents ==
    {[ok |-> TRUE, master_enable |-> m, has_tp |-> FALSE, transport_params |-> <<>>] :
        m \in {"absent", "True", "False"}}
      \cup {[ok |-> TRUE, master_enable |-> m, has_tp |-> TRUE, transport_params |-> t] :
              m \in {"absent", "True", "False"},
              t \in {<<>>} \cup {<<f>> : f \in FlowIds \cup {"None"}}}

\* What the environment answers during the side effects of one poll:
\* flow_data is the fetch of the flow document ("None" failed, "empty" the
\* document {}, "doc" a non-empty document); write_ok and popen_ok tell
\* whether write_text and subprocess.Popen return or raise.
IOs == [flow_data : {"None", "empty", "doc"}, write_ok : BOOLEAN, popen_ok : BOOLEAN]
NoIO == [flow_data |-> "None", write_ok |-> TRUE, popen_ok |-> TRUE]

\* Python truthiness of the values stored here
Truthy(v) == v \notin {"None", "False", "", "empty", "absent"}

----------------------------------------------------------------------------
(* _pattern_for_sender, lines 32-35 *)

\* The mutated form assigns by the sender's own lookups, not by the count.
pattern_for_sender_first(patterns, sender_id) ==
    IF ~Has(patterns, sender_id)
    THEN [patterns |-> Put(patterns, sender_id, TEST_PATTERNS[1]),
          pattern |-> TEST_PATTERNS[1]]
    ELSE [patterns |-> patterns, pattern |-> Lookup(patterns, sender_id)]

\* Returns the dict after the call and the returned pattern.
_pattern_for_sender(patterns, sender_id) ==
    LET assigned ==
          IF ~Has(patterns, sender_id)
          THEN Put(patterns, sender_id,
                   TEST_PATTERNS[(Len(patterns) % Len(TEST_PATTERNS)) + 1])
          ELSE patterns
    IN [patterns |-> assigned, pattern |-> Lookup(assigned, sender_id)]

----------------------------------------------------------------------------
(* discover_resources, lines 52-67 *)

\* entry.rstrip("/")
rstrip(entry) == entry[1]

RECURSIVE FilterMxl(_, _, _)
FilterMxl(rtype, entries, ttype) ==
    IF entries = <<>> THEN <<>>
    ELSE LET rid == rstrip(Head(entries))
             rest == FilterMxl(rtype, Tail(entries), ttype)
         IN IF ttype[Key(rtype, rid)] = MXL_TRANSPORT THEN <<rid>> \o rest ELSE rest

\* A variant that gives up on every type when one list fetch fails.
discover_resources_aborting(listing, ttype) ==
    [rtype \in {RESOURCE_TYPES[i] : i \in DOMAIN RESOURCE_TYPES} |->
        IF \E other \in DOMAIN listing : ~listing[other].ok THEN <<>>
        ELSE FilterMxl(rtype, listing[rtype].entries, ttype)]

discover_resources(listing, ttype) ==
    [rtype \in {RESOURCE_TYPES[i] : i \in DOMAIN RESOURCE_TYPES} |->
        IF ~listing[rtype].ok THEN <<>>
        ELSE FilterMxl(rtype, listing[rtype].entries, ttype)]

\* Every value discover_resources can return in this world
DiscoveryResults == {discover_resources(l, t) : l \in ValidListings, t \in TransportTypes}
\* ... when the list endpoints only list ids of the set ids
DiscoverableOn(ids) ==
    {r \in DiscoveryResults :
        \A rtype \in DOMAIN r : \A i \in DOMAIN r[rtype] : r[rtype][i] \in ids}

----------------------------------------------------------------------------
(* The side effects of one poll work on a record w of the global dicts,    *)
(* the process table, the directory and the printed lines; w.crashed       *)
(* tells that an exception left the loop body.                             *)

World ==
    [source_processes |-> source_processes, sink_processes |-> sink_processes,
     sender_flow_ids |-> sender_flow_ids, sender_patterns |-> sender_patterns,
     procs |-> procs, files |-> files, printed |-> <<>>, crashed |-> FALSE]

\* print(f"... {key:<60} {text}")
Line(text, key, arg) == [text |-> text, key |-> key, arg |-> arg]
Log(w, text, key, arg) == [w EXCEPT !.printed = Append(@, Line(text, key, arg))]
Raise(w) == [w EXCEPT !.crashed = TRUE]

\* subprocess.Popen([...]) for key: the new process goes last in procs[key].
\* flow is the descriptor <flow>.json a generator is started on and reads
\* while it runs ("-" for a sink, and for a process that was sent terminate).
Popen(w, key, cmd, flow, pattern) ==
    [w EXCEPT !.procs[key] =
        Append(@, [cmd |-> cmd, flow |-> flow, pattern |-> pattern, terms |-> 0])]

\* proc.terminate() on the process that handle names
terminate(w, key, handle) ==
    [w EXCEPT !.procs[key][handle].terms = @ + 1, !.procs[key][handle].flow = "-"]

\* data.get("master_enable", False)
MasterEnable(data) == IF data.master_enable = "absent" THEN "False" ELSE data.master_enable

\* data.get("transport_params", [{}])
TransportParams(data) == IF data.has_tp THEN data.transport_params ELSE <<"None">>

\* A variant that logs a first poll as a transition.
TransitionLogInitialAsBecame(key, prev, master_enable) ==
    IF Truthy(master_enable) /\ ~Truthy(prev) THEN <<Line("became ACTIVE", key, "")>>
    ELSE IF ~Truthy(master_enable) /\ Truthy(prev) THEN <<Line("became INACTIVE", key, "")>>
    ELSE <<>>

\* lines 104-110
TransitionLog(key, prev, master_enable) ==
    IF prev = "None"
    THEN <<Line("initial state", key, IF Truthy(master_enable) THEN "ACTIVE" ELSE "INACTIVE")>>
    ELSE IF Truthy(master_enable) /\ ~Truthy(prev) THEN <<Line("became ACTIVE", key, "")>>
    ELSE IF ~Truthy(master_enable) /\ Truthy(prev) THEN <<Line("became INACTIVE", key, "")>>
    ELSE <<>>

\* A variant that does not record the flow id of the sender.
ActivateSenderUnbound(w, key, flow_id, io) ==
    LET w2 == Log([w EXCEPT !.files = @ \cup {flow_id}], "wrote", key, flow_id)
        pat == _pattern_for_sender(w2.sender_patterns, key[2])
        w3 == [w2 EXCEPT !.sender_patterns = pat.patterns]
        w4 == Popen(w3, key, "mxl-gst-testsrc", flow_id, pat.pattern)
        w5 == [w4 EXCEPT !.source_processes = Set(@, key, Len(w4.procs[key]))]
    IN IF ~Truthy(io.flow_data) THEN w
       ELSE IF ~io.write_ok THEN Raise(w)
       ELSE IF ~io.popen_ok THEN Raise(w3)
       ELSE Log(w5, "launched mxl-gst-testsrc", key, pat.pattern)

\* lines 116-141
ActivateSender(w, key, flow_id, io) ==
    LET w1 == [w EXCEPT !.sender_flow_ids = Set(@, key, flow_id)]
        w2 == Log([w1 EXCEPT !.files = @ \cup {flow_id}], "wrote", key, flow_id)
        pat == _pattern_for_sender(w2.sender_patterns, key[2])
        w3 == [w2 EXCEPT !.sender_patterns = pat.patterns]
        w4 == Popen(w3, key, "mxl-gst-testsrc", flow_id, pat.pattern)
        w5 == [w4 EXCEPT !.source_processes = Set(@, key, Len(w4.procs[key]))]
    IN IF ~Truthy(io.flow_data) THEN w1
       ELSE IF ~io.write_ok THEN Raise(w1)
       ELSE IF ~io.popen_ok THEN Raise(w3)
       ELSE Log(w5, "launched mxl-gst-testsrc", key, pat.pattern)

\* A variant that starts the sink without keeping its handle.
ActivateReceiverUntracked(w, key, flow_id, io) ==
    IF ~io.popen_ok THEN Raise(w)
    ELSE Log(Popen(w, key, "mxl-gst-sink", "-", "-"), "launched mxl-gst-sink", key, flow_id)

\* lines 143-152
ActivateReceiver(w, key, flow_id, io) ==
    LET w1 == Popen(w, key, "mxl-gst-sink", "-", "-")
        w2 == [w1 EXCEPT !.sink_processes = Set(@, key, Len(w1.procs[key]))]
    IN IF ~io.popen_ok THEN Raise(w)
       ELSE Log(w2, "launched mxl-gst-sink", key, flow_id)

\* lines 112-152
Activate(w, key, data, io) ==
    LET params == TransportParams(data)
        flow_id == params[1]
        w1 == Log(w, "flow_id", key, flow_id)
    IN IF params = <<>> THEN Raise(w)
       ELSE IF IsSender(key) /\ Truthy(flow_id) THEN ActivateSender(w1, key, flow_id, io)
       ELSE IF IsReceiver(key) /\ Truthy(flow_id) THEN ActivateReceiver(w1, key, flow_id, io)
       ELSE w1

\* A variant that terminates the process and keeps its handle.
DeactivateKeepingHandle(w, key) ==
    LET w1 == IF key \in DOMAIN w.source_processes
              THEN Log(terminate(w, key, w.source_processes[key]),
                       "terminated mxl-gst-testsrc", key, "")
              ELSE w
        w2 == [Log([w1 EXCEPT !.files = @ \ {w.sender_flow_ids[key]}],
                   "removed", key, w.sender_flow_ids[key])
                 EXCEPT !.sender_flow_ids = Del(@, key)]
    IN IF IsSender(key) /\ key \in DOMAIN w.sender_flow_ids THEN w2
       ELSE IF IsReceiver(key) /\ key \in DOMAIN w.sink_processes
       THEN Log(terminate(w, key, w.sink_processes[key]), "terminated mxl-gst-sink", key, "")
       ELSE w

\* A variant that forgets the binding without unlinking the descriptor.
DeactivateKeepingFile(w, key) ==
    LET w1 == IF key \in DOMAIN w.source_processes
              THEN [Log(terminate(w, key, w.source_processes[key]),
                        "terminated mxl-gst-testsrc", key, "")
                      EXCEPT !.source_processes = Del(@, key)]
              ELSE w
        w3 == [Log(terminate(w, key, w.sink_processes[key]), "terminated mxl-gst-sink", key, "")
                 EXCEPT !.sink_processes = Del(@, key)]
    IN IF IsSender(key) /\ key \in DOMAIN w.sender_flow_ids
       THEN [w1 EXCEPT !.sender_flow_ids = Del(@, key)]
       ELSE IF IsReceiver(key) /\ key \in DOMAIN w.sink_processes THEN w3
       ELSE w

\* lines 154-168
Deactivate(w, key) ==
    LET w1 == IF key \in DOMAIN w.source_processes
              THEN [Log(terminate(w, key, w.source_processes[key]),
                        "terminated mxl-gst-testsrc", key, "")
                      EXCEPT !.source_processes = Del(@, key)]
              ELSE w
        w2 == [Log([w1 EXCEPT !.files = @ \ {w.sender_flow_ids[key]}],
                   "removed", key, w.sender_flow_ids[key])
                 EXCEPT !.sender_flow_ids = Del(@, key)]
        w3 == [Log(terminate(w, key, w.sink_processes[key]), "terminated mxl-gst-sink", key, "")
                 EXCEPT !.sink_processes = Del(@, key)]
    IN IF IsSender(key) /\ key \in DOMAIN w.sender_flow_ids THEN w2
       ELSE IF IsReceiver(key) /\ key \in DOMAIN w.sink_processes THEN w3
       ELSE w

\* A variant that records the polled value only when a transition was acted on.
ProcessPollRecordingTransitions(w, state, key, data, io) ==
    LET master_enable == MasterEnable(data)
        prev == Lookup(state, key)
        w1 == [w EXCEPT !.printed = TransitionLog(key, prev, master_enable)]
        w2 == IF Truthy(master_enable) /\ ~Truthy(prev) THEN Activate(w1, key, data, io)
              ELSE IF ~Truthy(master_enable) /\ Truthy(prev) THEN Deactivate(w1, key)
              ELSE w1
    IN [w |-> w2,
        active_state |-> IF w2.crashed \/ Truthy(master_enable) = Truthy(prev) THEN state
                         ELSE Put(state, key, master_enable)]

\* A variant that runs the activation whenever master_enable is true.
ProcessPollReactivating(w, state, key, data, io) ==
    LET master_enable == MasterEnable(data)
        prev == Lookup(state, key)
        w1 == [w EXCEPT !.printed = TransitionLog(key, prev, master_enable)]
        w2 == IF Truthy(master_enable) THEN Activate(w1, key, data, io)
              ELSE IF Truthy(prev) THEN Deactivate(w1, key)
              ELSE w1
    IN [w |-> w2,
        active_state |-> IF w2.crashed THEN state ELSE Put(state, key, master_enable)]

\* lines 101-170: the loop body after a fetch that returned a document
ProcessPoll(w, state, key, data, io) ==
    LET master_enable == MasterEnable(data)
        prev == Lookup(state, key)
        w1 == [w EXCEPT !.printed = TransitionLog(key, prev, master_enable)]
        w2 == IF Truthy(master_enable) /\ ~Truthy(prev) THEN Activate(w1, key, data, io)
              ELSE IF ~Truthy(master_enable) /\ Truthy(prev) THEN Deactivate(w1, key)
              ELSE w1
    IN [w |-> w2,
        active_state |-> IF w2.crashed THEN state ELSE Put(state, key, master_enable)]

\* A variant that keeps every tracked key and adds the discovered ones.
RECURSIVE MergeKeys(_, _)
MergeKeys(state, keys) ==
    IF keys = <<>> THEN state
    ELSE MergeKeys(IF Has(state, Head(keys)) THEN state ELSE Append(state, <<Head(keys), "None">>),
                   Tail(keys))

RediscoveredKeepingStale(state, resources) ==
    MergeKeys(state, Concat([i \in DOMAIN RESOURCE_TYPES |->
        [j \in DOMAIN resources[RESOURCE_TYPES[i]] |->
            Key(RESOURCE_TYPES[i], resources[RESOURCE_TYPES[i]][j])]]))

\* A variant that forgets the recorded state of every key.
RediscoveredForgetting(state, resources) ==
    MergeKeys(<<>>, Concat([i \in DOMAIN RESOURCE_TYPES |->
        [j \in DOMAIN resources[RESOURCE_TYPES[i]] |->
            Key(RESOURCE_TYPES[i], resources[RESOURCE_TYPES[i]][j])]]))

\* lines 88-92: the dict comprehension over the discovered resources
RECURSIVE Comprehend(_, _, _)
Comprehend(state, rtype, ids) ==
    IF ids = <<>> THEN <<>>
    ELSE LET key == Key(rtype, Head(ids))
         IN <<<<key, Get(state, key)>>>> \o Comprehend(state, rtype, Tail(ids))

\* dict(pairs): a repeated key keeps its first position and its last value
RECURSIVE FromPairs(_)
FromPairs(pairs) ==
    IF pairs = <<>> THEN <<>>
    ELSE LET p == pairs[Len(pairs)]
         IN Put(FromPairs(SubSeq(pairs, 1, Len(pairs) - 1)), p[1], p[2])

Rediscovered(state, resources) ==
    FromPairs(Concat([i \in DOMAIN RESOURCE_TYPES |->
                        Comprehend(state, RESOURCE_TYPES[i], resources[RESOURCE_TYPES[i]])]))

----------------------------------------------------------------------------
(* The monitor loop, lines 75-173, and the interrupt handler, 205-216 *)

\* The answers the poll of key with document data consumes; those it does
\* not read are fixed, so that two polls that differ only in an unread
\* answer are one step.
Answers(state, key, data) ==
    IF ~(Truthy(MasterEnable(data)) /\ ~Truthy(Lookup(state, key))) THEN {NoIO}
    ELSE IF TransportParams(data) = <<>> \/ ~Truthy(TransportParams(data)[1]) THEN {NoIO}
    ELSE IF IsSender(key)
    THEN {io \in IOs : /\ ~Truthy(io.flow_data) => io.write_ok
                       /\ ~(Truthy(io.flow_data) /\ io.write_ok) => io.popen_ok}
    ELSE {io \in IOs : io.flow_data = "None" /\ io.write_ok}

Spawned(table) == Len(table[Key("senders", "a")]) + Len(table[Key("senders", "b")])
                    + Len(table[Key("receivers", "x")])

\* No call of discover_resources by itself is under way: the loop's
\* Discover draws the value the call returns.
NoDiscovery ==
    [listing |-> [rtype \in {"senders", "receivers"} |-> [ok |-> FALSE, entries |-> <<>>]],
     ttype |-> [k \in AllKeys |-> "None"],
     returned |-> FALSE,
     resources |-> [rtype \in {"senders", "receivers"} |-> <<>>]]

InitMonitor ==
    /\ pc = "top"
    /\ active_state = <<>>
    /\ polls_since_discovery = rediscover_every
    /\ pending = <<>>
    /\ source_processes = Empty
    /\ sink_processes = Empty
    /\ sender_flow_ids = Empty
    /\ sender_patterns = <<>>
    /\ procs = [k \in AllKeys |-> <<>>]
    /\ files = {}
    /\ printed = <<>>

Init == InitMonitor /\ discovery = NoDiscovery

Globals == <<source_processes, sink_processes, sender_flow_ids, sender_patterns, procs, files>>

\* lines 84-93 with discover_resources returning resources, then line 95
\* takes list(active_state.keys())
DiscoverStep(resources) ==
    /\ pc = "top"
    /\ polls_since_discovery >= rediscover_every
    /\ active_state' = Rediscovered(active_state, resources)
    /\ printed' = [i \in DOMAIN RESOURCE_TYPES |-> Line("Discovered", NoKey, RESOURCE_TYPES[i])]
    /\ polls_since_discovery' = 0
    /\ pending' = DictKeys(active_state')
    /\ pc' = "poll"
    /\ UNCHANGED <<Globals, discovery>>

\* The node of the run exposes sender a and receiver x.
NodeIds == {"a", "x"}
Discover == \E resources \in DiscoverableOn(NodeIds) : DiscoverStep(resources)

\* line 84 false, then line 95
SkipDiscovery ==
    /\ pc = "top"
    /\ polls_since_discovery < rediscover_every
    /\ pending' = DictKeys(active_state)
    /\ pc' = "poll"
    /\ printed' = <<>>
    /\ UNCHANGED <<active_state, polls_since_discovery, Globals, discovery>>

\* A variant that goes on with an empty document when the fetch failed.
PollFailedAsEmptyDocument ==
    /\ pc = "poll"
    /\ pending # <<>>
    /\ \E r \in {ProcessPoll(World, active_state, Head(pending),
                              [NoData EXCEPT !.ok = TRUE], NoIO)} :
          /\ active_state' = r.active_state
          /\ source_processes' = r.w.source_processes
          /\ sink_processes' = r.w.sink_processes
          /\ sender_flow_ids' = r.w.sender_flow_ids
          /\ procs' = r.w.procs
          /\ files' = r.w.files
          /\ printed' = <<Line("ERROR polling", Head(pending), "")>> \o r.w.printed
    /\ pending' = Tail(pending)
    /\ UNCHANGED <<pc, polls_since_discovery, sender_patterns, discovery>>

\* lines 96-99: fetch_json printed the error and returned None, continue
PollFailed ==
    /\ pc = "poll"
    /\ pending # <<>>
    /\ pending' = Tail(pending)
    /\ printed' = <<Line("ERROR polling", Head(pending), "")>>
    /\ UNCHANGED <<pc, active_state, polls_since_discovery, Globals, discovery>>

\* lines 96-170: the fetch returned the document data
PollStep(data, io) ==
    /\ pc = "poll"
    /\ pending # <<>>
    /\ io \in Answers(active_state, Head(pending), data)
    /\ \E r \in {ProcessPoll(World, active_state, Head(pending), data, io)} :
          /\ Spawned(r.w.procs) <= MaxSpawn
          /\ active_state' = r.active_state
          /\ source_processes' = r.w.source_processes
          /\ sink_processes' = r.w.sink_processes
          /\ sender_flow_ids' = r.w.sender_flow_ids
          /\ sender_patterns' = r.w.sender_patterns
          /\ procs' = r.w.procs
          /\ files' = r.w.files
          /\ printed' = r.w.printed
          /\ pc' = IF r.w.crashed THEN "crashed" ELSE "poll"
    /\ pending' = Tail(pending)
    /\ UNCHANGED <<polls_since_discovery, discovery>>

Poll ==
    /\ pending # <<>>
    /\ \E data \in Documents : \E io \in Answers(active_state, Head(pending), data) :
          PollStep(data, io)

\* A variant whose counter counts the polls of the tick, not the tick.
EndTickCountingPolls ==
    /\ pc = "poll"
    /\ pending = <<>>
    /\ polls_since_discovery' = polls_since_discovery + Len(active_state)
    /\ pc' = "top"
    /\ printed' = <<>>
    /\ UNCHANGED <<active_state, pending, Globals, discovery>>

\* lines 172-173
EndTick ==
    /\ pc = "poll"
    /\ pending = <<>>
    /\ polls_since_discovery' = polls_since_discovery + 1
    /\ pc' = "top"
    /\ printed' = <<>>
    /\ UNCHANGED <<active_state, pending, Globals, discovery>>

\* lines 206-211: terminate() on every handle of both dicts
ShutdownProcesses(table) ==
    [k \in DOMAIN table |->
        [n \in DOMAIN table[k] |->
            IF \/ k \in DOMAIN source_processes /\ source_processes[k] = n
               \/ k \in DOMAIN sink_processes /\ sink_processes[k] = n
            THEN [table[k][n] EXCEPT !.terms = @ + 1, !.flow = "-"]
            ELSE table[k][n]]]

\* lines 212-215: unlink the file of every binding
ShutdownFiles(dir) == dir \ {sender_flow_ids[k] : k \in DOMAIN sender_flow_ids}

\* A variant whose handler also runs for a fault that left the loop.
InterruptOrFault ==
    /\ pc \in {"top", "poll", "crashed"}
    /\ procs' = ShutdownProcesses(procs)
    /\ files' = ShutdownFiles(files)
    /\ pc' = "stopped"
    /\ printed' = <<Line("Stopped.", NoKey, "")>>
    /\ UNCHANGED <<active_state, polls_since_discovery, pending,
                   source_processes, sink_processes, sender_flow_ids, sender_patterns,
                   discovery>>

\* lines 205-216: KeyboardInterrupt raised while monitor() runs
Interrupt ==
    /\ pc \in {"top", "poll"}
    /\ procs' = ShutdownProcesses(procs)
    /\ files' = ShutdownFiles(files)
    /\ pc' = "stopped"
    /\ printed' = <<Line("Stopped.", NoKey, "")>>
    /\ UNCHANGED <<active_state, polls_since_discovery, pending,
                   source_processes, sink_processes, sender_flow_ids, sender_patterns,
                   discovery>>

Next == Discover \/ SkipDiscovery \/ PollFailed \/ Poll \/ EndTick \/ Interrupt

Spec == Init /\ [][Next]_vars

----------------------------------------------------------------------------
(* Vocabulary of the properties *)

Tracked(k) == Has(active_state, k)
StateOf(k) == Lookup(active_state, k)

\* The processes started for k that were never sent terminate
Live(k) == {n \in DOMAIN procs[k] : procs[k][n].terms = 0}

Running == pc \in {"top", "poll"}

\* A successful I/O environment: write_text and Popen return
IOsWithoutFault == {io \in IOs : io.write_ok /\ io.popen_ok}

----------------------------------------------------------------------------
(* C1 *)

\* C1: while the monitor loop runs, every resource key has at most one live
\* process (started and never sent terminate) of its role.
C1_AtMostOneLiveProcess == Running => \A k \in AllKeys : Cardinality(Live(k)) <= 1

----------------------------------------------------------------------------
(* C3 *)

\* C3: once the interrupt handler has run, every process the monitor started
\* and tracked got terminate exactly once, and no descriptor file is left.
C3_ShutdownTerminatesOnceAndCleans ==
    pc = "stopped" =>
        /\ \A k \in AllKeys : \A n \in DOMAIN procs[k] : procs[k][n].terms = 1
        /\ files = {}

----------------------------------------------------------------------------
(* C7 *)

\* C7: whatever the shape of a fetched activation document, when no file
\* write and no process start fails the poll is processed and the loop goes
\* on to the next key.
C7_EveryDocumentShapeIsProcessed ==
    [][\A data \in Documents, io \in IOsWithoutFault : PollStep(data, io) => pc' = "poll"]_vars

----------------------------------------------------------------------------
(* C2 *)

\* The documents of an activation poll that carries the flow id f, and the
\* documents of a deactivation poll
ActivationDocuments(f) ==
    {d \in Documents : Truthy(MasterEnable(d)) /\ d.has_tp /\ d.transport_params = <<f>>}
DeactivationDocuments == {d \in Documents : ~Truthy(MasterEnable(d))}

WasActive(k) == Truthy(Lookup(active_state, k))

\* The descriptor of the bound flow is gone after a completed deactivation
\* poll of a sender.
DescriptorGoneAfterDeactivation ==
    (WasActive(Head(pending)) /\ Head(pending) \in DOMAIN sender_flow_ids) =>
        \A data \in DeactivationDocuments :
            PollStep(data, NoIO) => sender_flow_ids[Head(pending)] \notin files'

----------------------------------------------------------------------------
(* C4 *)

DiscoveryHappens == pc = "top" /\ polls_since_discovery >= rediscover_every /\ pc' = "poll"

\* C4: a discovery step keeps the recorded state of every key it keeps, and
\* every key it adds starts at None (Unknown).
C4_RediscoveryKeepsState ==
    [][DiscoveryHappens =>
         \A k \in AllKeys : Has(active_state', k) =>
            Lookup(active_state', k) = IF Has(active_state, k) THEN Lookup(active_state, k) ELSE "None"]_vars

\* A discovery has just kept an Active key and added a key next to it.
C4_Witness ==
    /\ pc = "poll" /\ printed # <<>> /\ printed[1].text = "Discovered"
    /\ Tracked(Key("senders", "a")) /\ StateOf(Key("senders", "a")) = "True"
    /\ Tracked(Key("receivers", "x")) /\ StateOf(Key("receivers", "x")) = "None"
    /\ procs[Key("receivers", "x")] = <<>>

----------------------------------------------------------------------------
(* C5 *)

\* C5 as stated: a tracked key stays tracked.
C5_TrackedSetOnlyGrows ==
    [][\A k \in AllKeys : Has(active_state, k) => Has(active_state', k)]_vars

ReportedKeys(resources) ==
    UNION {{Key(rtype, resources[rtype][i]) : i \in DOMAIN resources[rtype]} :
             rtype \in DOMAIN resources}

\* C5 amended: a discovery step makes the tracked set exactly the set of
\* keys it reports (a key no longer reported is dropped), no other step
\* changes the tracked set, and each tick polls exactly the tracked keys.
C5_TrackedSetIsLastDiscovery ==
    [][/\ \A resources \in DiscoverableOn(NodeIds) :
             DiscoverStep(resources) => KeySet(active_state') = ReportedKeys(resources)
       /\ ~DiscoveryHappens => KeySet(active_state') = KeySet(active_state)
       /\ (pc = "top" /\ pc' = "poll") => pending' = DictKeys(active_state')]_vars

\* A discovery has just dropped a key whose process is still live.
C5_Witness ==
    /\ pc = "poll" /\ printed # <<>> /\ printed[1].text = "Discovered"
    /\ \E k \in AllKeys : ~Tracked(k) /\ Live(k) # {}

----------------------------------------------------------------------------
(* C6 *)

FetchFailed(k) == printed' = <<Line("ERROR polling", k, "")>>

\* C6: a poll whose fetch failed changes neither the recorded states nor
\* the processes, bindings, patterns and files, prints no transition, and
\* the loop goes on with the next key.
C6_FailedFetchChangesNothing ==
    [][\A k \in AllKeys : (\E i \in DOMAIN printed' : printed'[i] = Line("ERROR polling", k, "")) =>
          /\ UNCHANGED <<active_state, Globals>>
          /\ FetchFailed(k)
          /\ pc' = "poll" /\ pending = <<k>> \o pending']_vars

\* The fetch of an Active key with a live process has just failed.
C6_Witness ==
    \E k \in AllKeys :
        /\ printed = <<Line("ERROR polling", k, "")>>
        /\ Tracked(k) /\ StateOf(k) = "True" /\ Live(k) # {}

----------------------------------------------------------------------------
(* C8 *)

PrintedNext(text, k) == \E i \in DOMAIN printed' : printed'[i].text = text /\ printed'[i].key = k

\* (Below, "the step is a poll of document data => Q" is written
\* "Q \/ no answer makes the step a poll of data".)
\* C8 as stated: a successful poll prints "became ACTIVE" exactly when the
\* recorded state was Inactive or Unknown and master_enable is true, and
\* "became INACTIVE" exactly when it was Active and master_enable is false.
C8_BecameLoggedOnEveryFlip ==
    [][(pc = "poll" /\ pending # <<>>) =>
         \A data \in Documents :
            \/ /\ PrintedNext("became ACTIVE", Head(pending))
                     <=> (Truthy(MasterEnable(data)) /\ ~WasActive(Head(pending)))
               /\ PrintedNext("became INACTIVE", Head(pending))
                     <=> (~Truthy(MasterEnable(data)) /\ WasActive(Head(pending)))
            \/ \A io \in Answers(active_state, Head(pending), data) : ~PollStep(data, io)]_vars

\* C8 amended: by a poll whose fetch returned a document (not a failed
\* fetch, not the interrupt) "became ACTIVE" is printed exactly when the recorded state
\* was Inactive (False) and master_enable is true; "became INACTIVE" exactly
\* when it was Active and master_enable is false; from Unknown (None) the
\* line printed is "initial state" with the polled value.
C8_BecameLoggedOnFlipOfKnownState ==
    [][(pc = "poll" /\ pending # <<>> /\ pc' # "stopped" /\ ~FetchFailed(Head(pending))) =>
         \A data \in Documents :
            \/ /\ PrintedNext("became ACTIVE", Head(pending))
                     <=> (Truthy(MasterEnable(data)) /\ Lookup(active_state, Head(pending)) = "False")
               /\ PrintedNext("became INACTIVE", Head(pending))
                     <=> (~Truthy(MasterEnable(data)) /\ WasActive(Head(pending)))
               /\ PrintedNext("initial state", Head(pending))
                     <=> Lookup(active_state, Head(pending)) = "None"
               /\ Lookup(active_state, Head(pending)) = "None" =>
                     (printed' # <<>> /\ printed'[1].arg =
                         IF Truthy(MasterEnable(data)) THEN "ACTIVE" ELSE "INACTIVE")
            \/ \A io \in Answers(active_state, Head(pending), data) : ~PollStep(data, io)]_vars

\* An Inactive key has just been polled with master_enable true.
C8_Witness ==
    \E k \in AllKeys :
        /\ printed # <<>> /\ printed[1] = Line("became ACTIVE", k, "")
        /\ StateOf(k) = "True"

----------------------------------------------------------------------------
(* C9 *)

\* C9: a completed successful poll records the polled master_enable (absent
\* counts as false) whatever the path, and a key that stays tracked never
\* goes back to None (Unknown) once it was polled.
C9_StateIsPolledValue ==
    [][/\ (pc = "poll" /\ pc' = "poll" /\ pending # <<>>) =>
             \A data \in Documents :
                \/ Lookup(active_state', Head(pending)) = MasterEnable(data)
                \/ \A io \in Answers(active_state, Head(pending), data) : ~PollStep(data, io)
       /\ \A k \in AllKeys :
             (Has(active_state, k) /\ Lookup(active_state, k) # "None" /\ Has(active_state', k))
                => Lookup(active_state', k) # "None"]_vars

\* A poll on a path without transition (first poll, master_enable false)
\* has recorded Inactive.
C9_Witness ==
    \E k \in AllKeys :
        /\ printed = <<Line("initial state", k, "INACTIVE")>>
        /\ StateOf(k) = "False"

----------------------------------------------------------------------------
(* C10: _pattern_for_sender by itself, over five sender ids *)

PatternSenderIds == {"a", "b", "c", "d", "e"}

\* One call _pattern_for_sender(sender_id); the returned pattern is printed.
PatternLookup ==
    \E sender_id \in PatternSenderIds :
        \E r \in {_pattern_for_sender(sender_patterns, sender_id)} :
            /\ sender_patterns' = r.patterns
            /\ printed' = <<Line("pattern", Key("senders", sender_id), r.pattern)>>
            /\ UNCHANGED <<pc, active_state, polls_since_discovery, pending, source_processes,
                           sink_processes, sender_flow_ids, procs, files, discovery>>

SpecPattern == Init /\ [][PatternLookup]_vars

\* C10: the N-th distinct sender looked up (0-indexed) holds
\* TEST_PATTERNS[N mod len(TEST_PATTERNS)], every call returns the pattern
\* its sender holds, and an assignment never changes.
C10_PatternRoundRobinAndStable ==
    /\ [](\A i \in DOMAIN sender_patterns :
             sender_patterns[i][2] = TEST_PATTERNS[((i - 1) % Len(TEST_PATTERNS)) + 1])
    /\ [](printed # <<>> => printed[1].arg = Lookup(sender_patterns, printed[1].key[2]))
    /\ [][\A i \in DOMAIN sender_patterns :
             i \in DOMAIN sender_patterns' /\ sender_patterns'[i] = sender_patterns[i]]_vars

\* The first sender has just been looked up again after the assignment
\* wrapped around the pattern list.
C10_Witness ==
    /\ Len(sender_patterns) > Len(TEST_PATTERNS)
    /\ printed = <<Line("pattern", Key("senders", sender_patterns[1][1]), TEST_PATTERNS[1])>>
    /\ sender_patterns[Len(TEST_PATTERNS) + 1][2] = TEST_PATTERNS[1]

----------------------------------------------------------------------------
(* C11 *)

\* The documents of an activation poll that carries no resolvable flow_id:
\* transport_params absent, empty, or with a first element without flow_id
NoFlowDocuments ==
    {d \in Documents : /\ Truthy(MasterEnable(d))
                        /\ (TransportParams(d) = <<>> \/ ~Truthy(TransportParams(d)[1]))}

\* C11: an activation poll of a sender or a receiver that carries no
\* resolvable flow_id starts no process, stores no handle and no binding,
\* writes no file, and records the key as Active.
C11_ActivationWithoutFlowRecordsActive ==
    [][(pc = "poll" /\ pending # <<>> /\ ~WasActive(Head(pending))) =>
         \A data \in NoFlowDocuments :
            PollStep(data, NoIO) =>
               /\ UNCHANGED <<procs, source_processes, sink_processes, sender_flow_ids, files>>
               /\ Lookup(active_state', Head(pending)) = "True"]_vars

----------------------------------------------------------------------------
(* C12 *)

\* A tick starts when the loop leaves line 84 and ends at lines 172-173;
\* a discovery prints its "Discovered" lines (line 87).
TickStarts == pc = "top" /\ pc' = "poll"
TickEnds == pc = "poll" /\ pc' = "top"
DiscoveryRan == printed' # <<>> /\ printed'[1].text = "Discovered"

\* C12: the counter is the number of ticks completed since the last
\* discovery (rediscover_every before the first tick): a tick starts with a
\* discovery exactly when the counter has reached rediscover_every, which
\* resets it; the end of a tick adds one whatever the polls of the tick did,
\* and no poll changes it. So discovery runs at the first tick and then at
\* every rediscover_every-th tick, never in between.
C12_DiscoveryEveryNthTick ==
    /\ [](pc = "top" => polls_since_discovery \in 1..rediscover_every)
    /\ [](pc = "poll" => polls_since_discovery \in 0..(rediscover_every - 1))
    /\ [][/\ TickStarts =>
              /\ DiscoveryRan <=> polls_since_discovery = rediscover_every
              /\ polls_since_discovery' = IF DiscoveryRan THEN 0 ELSE polls_since_discovery
          /\ TickEnds => polls_since_discovery' = polls_since_discovery + 1
          /\ (pc = "poll" /\ pc' = "poll") => UNCHANGED polls_since_discovery]_vars

\* A discovery has just run again, after ticks in which keys were polled.
C12_Witness ==
    /\ pc = "poll"
    /\ printed # <<>> /\ printed[1].text = "Discovered"
    /\ polls_since_discovery = 0
    /\ \E k \in AllKeys : Tracked(k) /\ StateOf(k) # "None"

----------------------------------------------------------------------------
(* C13 *)

\* key has a handle of its role, and the process it names was never sent
\* terminate
HandleLive(k) ==
    IF IsSender(k)
    THEN k \in DOMAIN source_processes /\ procs[k][source_processes[k]].terms = 0
    ELSE k \in DOMAIN sink_processes /\ procs[k][sink_processes[k]].terms = 0

\* While the loop runs, a key that stays Active keeps its live handle.
LiveHandleKept ==
    \A k \in AllKeys :
        (/\ Tracked(k) /\ StateOf(k) = "True" /\ HandleLive(k)
         /\ Running' /\ Tracked(k)' /\ StateOf(k)' = "True") => HandleLive(k)'

----------------------------------------------------------------------------
(* C14 *)

\* The process that handle names in table[k] got one more terminate.
TerminatedNext(k, handle) == procs'[k][handle].terms = procs[k][handle].terms + 1

\* C14: a deactivation poll terminates the process of the key's handle, if
\* it has one; for a sender with a binding the descriptor of the bound flow
\* is absent afterwards, whether or not it existed; the poll completes, and
\* after it the key has no handle and no binding.
C14_DeactivationReleasesKey ==
    [][(pc = "poll" /\ pending # <<>> /\ WasActive(Head(pending))) =>
         \A k \in {Head(pending)}, data \in DeactivationDocuments :
            PollStep(data, NoIO) =>
               /\ pc' = "poll"
               /\ k \in DOMAIN source_processes => TerminatedNext(k, source_processes[k])
               /\ k \in DOMAIN sink_processes => TerminatedNext(k, sink_processes[k])
               /\ k \in DOMAIN sender_flow_ids => sender_flow_ids[k] \notin files'
               /\ k \notin DOMAIN source_processes'
               /\ k \notin DOMAIN sink_processes'
               /\ k \notin DOMAIN sender_flow_ids']_vars

\* A sender whose generator was running has just been deactivated: the
\* generator got terminate and the sender has no handle and no binding.
C14_Witness ==
    \E k \in AllKeys :
        /\ IsSender(k)
        /\ \E i \in DOMAIN printed : printed[i] = Line("terminated mxl-gst-testsrc", k, "")
        /\ k \notin DOMAIN source_processes /\ k \notin DOMAIN sender_flow_ids
        /\ procs[k] # <<>> /\ Live(k) = {}

----------------------------------------------------------------------------
(* C15 *)

\* The documents that put a key with recorded state prev on a no-op path
NoOpDocuments(prev) ==
    {d \in Documents : (prev = "True" /\ Truthy(MasterEnable(d)))
                           \/ (prev = "False" /\ ~Truthy(MasterEnable(d)))}

\* C15: a successful poll of an Active key with master_enable true, or of
\* an Inactive key with master_enable false, changes no handle, binding,
\* pattern assignment, process or descriptor file, and completes.
C15_NoOpPollChangesNothing ==
    [][(pc = "poll" /\ pending # <<>>) =>
         \A data \in NoOpDocuments(Lookup(active_state, Head(pending))) :
            PollStep(data, NoIO) => (UNCHANGED Globals /\ pc' = "poll")]_vars

\* The key polled last is Active with a running process, and its poll
\* printed nothing: it was a successful poll with master_enable true.
C15_Witness ==
    /\ pc = "poll"
    /\ printed = <<>>
    /\ Len(pending) < Len(active_state)
    /\ \E k \in {active_state[Len(active_state) - Len(pending)][1]} :
          StateOf(k) = "True" /\ HandleLive(k)

----------------------------------------------------------------------------
(* C16: discover_resources by itself, over every answer of the API *)

\* The API answers are fixed before the call.
InitDiscover ==
    /\ InitMonitor
    /\ discovery \in {[NoDiscovery EXCEPT !.listing = l, !.ttype = t] :
                         l \in ValidListings, t \in TransportTypes}

\* One call discover_resources(base_url) against those answers
DiscoverCall ==
    /\ ~discovery.returned
    /\ discovery' = [discovery EXCEPT
                        !.returned = TRUE,
                        !.resources = discover_resources(discovery.listing, discovery.ttype)]
    /\ UNCHANGED <<pc, active_state, polls_since_discovery, pending, source_processes,
                   sink_processes, sender_flow_ids, sender_patterns, procs, files, printed>>

SpecDiscover == InitDiscover /\ [][DiscoverCall]_vars

\* The positions of the entries of a successful listing of rtype whose
\* transporttype fetch returned the MXL URN
MxlPositions(rtype) ==
    {j \in DOMAIN discovery.listing[rtype].entries :
        discovery.ttype[Key(rtype, rstrip(discovery.listing[rtype].entries[j]))] = MXL_TRANSPORT}

\* ids lists the entries at those positions, each once, in listing order.
ListsMxlInOrder(rtype, ids) ==
    /\ Len(ids) = Cardinality(MxlPositions(rtype))
    /\ \E pos \in [DOMAIN ids -> MxlPositions(rtype)] :
          /\ \A i, j \in DOMAIN ids : i < j => pos[i] < pos[j]
          /\ \A i \in DOMAIN ids : ids[i] = rstrip(discovery.listing[rtype].entries[pos[i]])

\* C16: the value discover_resources returns has, for each of the two
\* resource types, the empty list when the list fetch of that type failed,
\* and otherwise exactly the listed ids (trailing "/" stripped) whose
\* transporttype is the MXL URN, in listing order, whatever happened to the
\* other type.
C16_DiscoverReturnsMxlIdsInOrder ==
    discovery.returned =>
        /\ DOMAIN discovery.resources = {"senders", "receivers"}
        /\ \A rtype \in {"senders", "receivers"} :
              IF ~discovery.listing[rtype].ok
              THEN discovery.resources[rtype] = <<>>
              ELSE ListsMxlInOrder(rtype, discovery.resources[rtype])

\* The list fetch of senders failed and the call returned the MXL receiver
\* that was listed with a trailing "/".
C16_Witness ==
    /\ discovery.returned
    /\ ~discovery.listing["senders"].ok
    /\ discovery.listing["receivers"].entries = <<<<"x", 1>>>>
    /\ discovery.resources = [rtype \in {"senders", "receivers"} |->
                                 IF rtype = "senders" THEN <<>> ELSE <<"x">>]

----------------------------------------------------------------------------
(* C17 *)

\* The answers with which write_text or Popen raises
IOsWithFault == IOs \ IOsWithoutFault

\* C17: nothing happens after a fault has left the loop: no poll, no tick
\* and no handler; and the poll in which write_text or Popen raises sends
\* no terminate, drops no handle, deletes no file, does not record the
\* polled state, and leaves the binding of the sender it was activating.
C17_StartFailureEndsWithoutCleanup ==
    /\ [][pc # "crashed"]_vars
    /\ [][(pc = "poll" /\ pending # <<>> /\ ~WasActive(Head(pending))) =>
            \A k \in {Head(pending)}, f \in FlowIds :
               \A data \in ActivationDocuments(f), io \in IOsWithFault :
                  PollStep(data, io) =>
                     /\ pc' = "crashed"
                     /\ UNCHANGED <<procs, source_processes, sink_processes, active_state>>
                     /\ files \subseteq files'
                     /\ IsSender(k) =>
                           (k \in DOMAIN sender_flow_ids' /\ sender_flow_ids'[k] = f)]_vars

\* Popen raised for a sender after its descriptor was written: the loop is
\* dead, the sender's binding is recorded without a handle, and the sink
\* started earlier for a receiver is still running.
C17_Witness ==
    /\ pc = "crashed"
    /\ \E k \in AllKeys :
          /\ IsSender(k)
          /\ k \in DOMAIN sender_flow_ids /\ k \notin DOMAIN source_processes
          /\ \E i \in DOMAIN printed : printed[i] = Line("wrote", k, sender_flow_ids[k])
          /\ sender_flow_ids[k] \in files
    /\ \E k \in AllKeys : IsReceiver(k) /\ HandleLive(k)

----------------------------------------------------------------------------
(* C18 *)

\* C18: while the loop runs, a key whose recorded state is Inactive (False)
\* has no process that was started for it and never sent terminate.
C18_NoLiveProcessWhileInactive ==
    Running => \A k \in AllKeys : (Tracked(k) /\ StateOf(k) = "False") => Live(k) = {}

----------------------------------------------------------------------------
(* C19 *)

\* C19: in every state, every key with a source process handle has a
\* sender-to-flow binding.
C19_SourceHandleHasBinding == DOMAIN source_processes \subseteq DOMAIN sender_flow_ids

\* Between two ticks a sender has a source process handle and a binding.
C19_Witness ==
    /\ pc = "top"
    /\ \E k \in DOMAIN source_processes : sender_flow_ids[k] \in FlowIds

----------------------------------------------------------------------------
(* C20: the loop on a node that exposes the two senders a and b *)

SenderNodeIds == {"a", "b"}
DiscoverSenders == \E resources \in DiscoverableOn(SenderNodeIds) : DiscoverStep(resources)

NextSenders ==
    DiscoverSenders \/ SkipDiscovery \/ PollFailed \/ Poll \/ EndTick \/ Interrupt

SpecSenders == Init /\ [][NextSenders]_vars

\* C20: while the loop runs, the descriptor that the generator of a source
\* process handle was started on is on disk for as long as that generator
\* was not sent terminate.
C20_DescriptorOfLiveSourceOnDisk ==
    Running =>
        \A k \in DOMAIN source_processes :
            procs[k][source_processes[k]].terms = 0
                => procs[k][source_processes[k]].flow \in files

====
